---- MODULE Spec2Model ----
(***************************************************************************)
(* A model of nile's common module (src/src/nile/common.py): parameter     *)
(* classification and encoding, command assembly for the starknet CLI,     *)
(* network resolution with the node.json fallback, subprocess invocation   *)
(* and the parsing of the CLI's output.                                    *)
(*                                                                         *)
(* Representation.  A Python str that the code inspects is a sequence of   *)
(* one-character strings; a command token is a TLA+ string (Join turns the *)
(* first into the second).  A Python int is arbitrary precision and is     *)
(* kept as a sign and a magnitude of little-endian base-16 limbs without   *)
(* leading zero limbs, so 64-digit addresses do not overflow.  An optional *)
(* argument is <<>> (None) or <<v>> (v was passed).                        *)
(***************************************************************************)
EXTENDS Integers, Sequences, FiniteSets, TLC

VARIABLES nodeFile, fileAtStart, fileWrites, GATEWAYS, environ, discipline,
          direct, calls, ret

vars == <<nodeFile, fileAtStart, fileWrites, GATEWAYS, environ, discipline,
          direct, calls, ret>>

(***************************************************************************)
(* Bounds of the model.                                                    *)
(***************************************************************************)
MaxParamLen == 3

MaxSegs == 4

MaxListLen == 2

MaxInnerLen == 1

(***************************************************************************)
(* Python values.                                                          *)
(***************************************************************************)
None == <<>>

Some(v) == <<v>>

PyStr(s) == [t |-> "str", s |-> s]

PyInt(neg, mag) == [t |-> "int", neg |-> neg, mag |-> mag]

PyList(items) == [t |-> "list", items |-> items]

PyTuple(items) == [t |-> "tuple", items |-> items]

(* an exception raised instead of a value *)
PyError(error) == [t |-> "error", error |-> error]

Reverse(s) == [i \in 1..Len(s) |-> s[Len(s) + 1 - i]]

Rep(c, n) == [i \in 1..n |-> c]

Min(S) == CHOOSE x \in S : \A y \in S : x <= y

Max(S) == CHOOSE x \in S : \A y \in S : x >= y

RECURSIVE Join(_)
Join(s) == IF s = <<>> THEN "" ELSE Head(s) \o Join(Tail(s))

(* mag * m + carry on little-endian base-16 limbs *)
RECURSIVE MulAdd(_, _, _)
MulAdd(mag, m, carry) ==
    IF mag = <<>>
    THEN IF carry = 0 THEN <<>>
         ELSE <<carry % 16>> \o MulAdd(<<>>, m, carry \div 16)
    ELSE LET v == Head(mag) * m + carry
         IN  <<v % 16>> \o MulAdd(Tail(mag), m, v \div 16)

(* long division of big-endian limbs by d: quotient limbs (big-endian,      *)
(* leading zeros kept) and remainder                                        *)
RECURSIVE DivLimbs(_, _, _)
DivLimbs(be, d, r) ==
    IF be = <<>> THEN [q |-> <<>>, r |-> r]
    ELSE LET v    == r * 16 + Head(be)
             rest == DivLimbs(Tail(be), d, v % d)
         IN  [q |-> <<v \div d>> \o rest.q, r |-> rest.r]

RECURSIVE DropZeros(_)
DropZeros(be) ==
    IF be # <<>> /\ Head(be) = 0 THEN DropZeros(Tail(be)) ELSE be

DecChar(d) ==
    CASE d = 0 -> "0" [] d = 1 -> "1" [] d = 2 -> "2" [] d = 3 -> "3"
      [] d = 4 -> "4" [] d = 5 -> "5" [] d = 6 -> "6" [] d = 7 -> "7"
      [] d = 8 -> "8" [] d = 9 -> "9"

RECURSIVE DecDigits(_)
DecDigits(mag) ==
    IF mag = <<>> THEN <<>>
    ELSE LET dm == DivLimbs(Reverse(mag), 10, 0)
         IN  DecDigits(Reverse(DropZeros(dm.q))) \o <<DecChar(dm.r)>>

(***************************************************************************)
(* Characters and bytes.  A character is a string: the character itself    *)
(* for printable ASCII but the grave accent and for the escapes "\t" "\n"  *)
(* "\f" "\r", and "U+" with the code point in hexadecimal for every other. *)
(* A byte of a Python bytes object is an integer in 0..255.                 *)
(***************************************************************************)
ASCII ==
    <<"U+0000", "U+0001", "U+0002", "U+0003", "U+0004", "U+0005", "U+0006", "U+0007",
     "U+0008", "\t", "\n", "U+000B", "\f", "\r", "U+000E", "U+000F",
     "U+0010", "U+0011", "U+0012", "U+0013", "U+0014", "U+0015", "U+0016", "U+0017",
     "U+0018", "U+0019", "U+001A", "U+001B", "U+001C", "U+001D", "U+001E", "U+001F",
     " ", "!", "\"", "#", "$", "%", "&", "'",
     "(", ")", "*", "+", ",", "-", ".", "/",
     "0", "1", "2", "3", "4", "5", "6", "7",
     "8", "9", ":", ";", "<", "=", ">", "?",
     "@", "A", "B", "C", "D", "E", "F", "G",
     "H", "I", "J", "K", "L", "M", "N", "O",
     "P", "Q", "R", "S", "T", "U", "V", "W",
     "X", "Y", "Z", "[", "\\", "]", "^", "_",
     "U+0060", "a", "b", "c", "d", "e", "f", "g",
     "h", "i", "j", "k", "l", "m", "n", "o",
     "p", "q", "r", "s", "t", "u", "v", "w",
     "x", "y", "z", "{", "|", "}", "~", "U+007F">>

HexDigit ==
    <<"0", "1", "2", "3", "4", "5", "6", "7", "8", "9",
      "A", "B", "C", "D", "E", "F">>

RECURSIVE CodeHex(_)
CodeHex(n) ==
    IF n < 16 THEN HexDigit[n + 1]
    ELSE CodeHex(n \div 16) \o HexDigit[(n % 16) + 1]

CodeName(cp) ==
    "U+" \o (IF cp < 256 THEN "00" ELSE IF cp < 4096 THEN "0" ELSE "")
         \o CodeHex(cp)

chr(cp) == IF cp < 128 THEN ASCII[cp + 1] ELSE CodeName(cp)

ord ==
    [c \in {ASCII[i] : i \in 1..128} |->
        (CHOOSE i \in 1..128 : ASCII[i] = c) - 1]

isascii(c) == c \in DOMAIN ord

(* str.isspace outside ASCII: the characters int() takes for a space *)
UnicodeSpaces ==
    {chr(cp) : cp \in {133, 160, 5760} \cup (8192..8202)
                        \cup {8232, 8233, 8239, 8287, 12288}}

(* the code points of the digit zero of every script but ASCII (Unicode    *)
(* category Nd, the digits 0 to 9 of a script are consecutive)             *)
DecimalZeros ==
    {1632, 1776, 1984, 2406, 2534, 2662, 2790, 2918, 3046,
     3174, 3302, 3430, 3558, 3664, 3792, 3872, 4160, 4240,
     6112, 6160, 6470, 6608, 6784, 6800, 6992, 7088, 7232,
     7248, 42528, 43216, 43264, 43472, 43504, 43600, 44016, 65296,
     66720, 68912, 69734, 69872, 69942, 70096, 70384, 70736, 70864,
     71248, 71360, 71472, 71904, 72016, 72784, 73040, 73120, 92768,
     92864, 93008, 120782, 120792, 120802, 120812, 120822, 123200, 123632,
     125264, 130032}

DecimalPairs ==
    UNION {{<<chr(z + d), d>> : d \in 0..9} : z \in DecimalZeros}

(* the decimal value of a non-ASCII decimal digit *)
UnicodeDecimal ==
    [c \in {p[1] : p \in DecimalPairs} |->
        (CHOOSE p \in DecimalPairs : p[1] = c)[2]]

(***************************************************************************)
(* The interpreter's limit on conversions between int and decimal text     *)
(* (sys.int_info of CPython: default_max_str_digits, the threshold below   *)
(* which no check is made, and the bits of one digit of an int object).    *)
(* A conversion over the limit raises ValueError; bases that are a power   *)
(* of two are exempt.                                                      *)
(***************************************************************************)
int_max_str_digits == 4300

str_digits_check_threshold == 640

bits_per_digit == 30

bit_length(mag) ==
    IF mag = <<>> THEN 0
    ELSE 4 * (Len(mag) - 1)
             + (CHOOSE b \in 1..4 : 2^(b - 1) <= mag[Len(mag)] /\ mag[Len(mag)] < 2^b)

(* the number of digits of the int object *)
size_a(mag) == (bit_length(mag) + bits_per_digit - 1) \div bits_per_digit

(* the refusal before the conversion, from the size of the int object *)
exceeds_by_size(mag) ==
    /\ size_a(mag) >= (10 * str_digits_check_threshold) \div (3 * bits_per_digit) + 2
    /\ int_max_str_digits \div (3 * bits_per_digit) <= (size_a(mag) - 11) \div 10

(* the refusal after the conversion, from the length of the text *)
limited(digits) ==
    IF Len(digits) > str_digits_check_threshold /\ Len(digits) > int_max_str_digits
    THEN PyError("ValueError")
    ELSE PyStr(digits)

signed(neg, text) ==
    IF text.t = "str" /\ neg THEN PyStr(<<"-">> \o text.s) ELSE text

(***************************************************************************)
(* str(x): the decimal text of an int, the text itself of a str; an int of *)
(* more than int_max_str_digits decimal digits raises ValueError.          *)
(***************************************************************************)
str(x) ==
    IF x.t = "str" THEN x
    ELSE IF x.mag = <<>> THEN PyStr(<<"0">>)
    ELSE IF exceeds_by_size(x.mag) THEN PyError("ValueError")
    ELSE signed(x.neg, limited(DecDigits(x.mag)))

(***************************************************************************)
(* int(x) and int(x, base) on a str, after CPython: the text is first      *)
(* brought to ASCII (every Unicode space becomes a blank, every Unicode     *)
(* decimal digit its ASCII digit, any other non-ASCII character cannot be  *)
(* part of a number), then PyLong_FromString drops the surrounding ASCII   *)
(* whitespace, allows one sign, for base 16 a 0x/0X prefix and one         *)
(* underscore after it, and digits separated by single underscores; for a  *)
(* base that is not a power of two it counts the digits and refuses more   *)
(* than int_max_str_digits.  ok = FALSE stands for the ValueError.         *)
(***************************************************************************)
TransformDecimalAndSpaceToASCII(c) ==
    IF isascii(c) THEN c
    ELSE IF c \in UnicodeSpaces THEN " "
    ELSE IF c \in DOMAIN UnicodeDecimal THEN DecChar(UnicodeDecimal[c])
    ELSE "?"

IsSpace(c) == c \in {" ", "\t", "\n", "U+000B", "\f", "\r"}

DigitVal(c) ==
    CASE c = "0" -> 0 [] c = "1" -> 1 [] c = "2" -> 2 [] c = "3" -> 3
      [] c = "4" -> 4 [] c = "5" -> 5 [] c = "6" -> 6 [] c = "7" -> 7
      [] c = "8" -> 8 [] c = "9" -> 9
      [] c \in {"a", "A"} -> 10 [] c \in {"b", "B"} -> 11
      [] c \in {"c", "C"} -> 12 [] c \in {"d", "D"} -> 13
      [] c \in {"e", "E"} -> 14 [] c \in {"f", "F"} -> 15
      [] c \in {"g", "G"} -> 16 [] c \in {"x", "X"} -> 33
      [] OTHER -> 37

RECURSIVE LStrip(_)
LStrip(s) == IF s # <<>> /\ IsSpace(Head(s)) THEN LStrip(Tail(s)) ELSE s

strip(s) == Reverse(LStrip(Reverse(LStrip(s))))

(* the digit loop: a digit below the base, or an underscore right after a *)
(* digit; the text must not be empty and must end with a digit             *)
ScanDigits(s, base) ==
    /\ s # <<>>
    /\ s[Len(s)] # "_"
    /\ \A i \in 1..Len(s) :
         IF s[i] = "_" THEN i > 1 /\ s[i - 1] # "_"
         ELSE DigitVal(s[i]) < base

IsDigitChar(c) == c # "_"

(* the value of the digits, most significant first; for base 16 the digits *)
(* are the limbs (CPython's path for a power-of-two base)                  *)
RECURSIVE Accumulate(_, _, _)
Accumulate(ds, n, base) ==
    IF n = 0 THEN <<>>
    ELSE MulAdd(Accumulate(ds, n - 1, base), base, DigitVal(ds[n]))

DigitLimbs(ds) == Reverse(DropZeros([i \in 1..Len(ds) |-> DigitVal(ds[i])]))

(* the digits from the first that is not zero on: leading zeros add        *)
(* nothing to the value                                                    *)
significant(ds) ==
    IF \A i \in 1..Len(ds) : DigitVal(ds[i]) = 0 THEN <<>>
    ELSE SubSeq(ds, CHOOSE i \in 1..Len(ds) :
                        /\ DigitVal(ds[i]) # 0
                        /\ \A j \in 1..(i - 1) : DigitVal(ds[j]) = 0,
                Len(ds))

Magnitude(ds, base) ==
    IF base = 16 THEN DigitLimbs(ds)
    ELSE Accumulate(significant(ds), Len(significant(ds)), base)

unsigned(s) == IF s # <<>> /\ Head(s) \in {"+", "-"} THEN Tail(s) ELSE s

has_prefix(s, base) ==
    base = 16 /\ Len(s) >= 2 /\ s[1] = "0" /\ s[2] \in {"x", "X"}

skip_underscore(s) == IF s # <<>> /\ Head(s) = "_" THEN Tail(s) ELSE s

skip_prefix(s, base) ==
    IF has_prefix(s, base) THEN skip_underscore(Tail(Tail(s))) ELSE s

int_value(ok, mag, neg) ==
    [ok |-> ok, val |-> PyInt(ok /\ neg /\ mag # <<>>, IF ok THEN mag ELSE <<>>)]

(* the check of the count of digits after the digit loop *)
within_limit(digits, base) ==
    \/ base \in {2, 4, 8, 16, 32}
    \/ digits <= str_digits_check_threshold
    \/ digits <= int_max_str_digits

int_digits(s, base, neg) ==
    int_value(ScanDigits(s, base)
                  /\ within_limit(Len(SelectSeq(s, IsDigitChar)), base),
              Magnitude(SelectSeq(s, IsDigitChar), base), neg)

int_stripped(s, base) ==
    int_digits(skip_prefix(unsigned(s), base), base, s # <<>> /\ Head(s) = "-")

int_str(chars, base) ==
    int_stripped(strip([i \in 1..Len(chars) |->
                           TransformDecimalAndSpaceToASCII(chars[i])]), base)

(* int(x): an int converts to itself, a str is parsed, anything else raises *)
int(x, base) ==
    IF x.t = "str" THEN int_str(x.s, base)
    ELSE IF x.t = "int" /\ base = 10 THEN [ok |-> TRUE, val |-> x]
    ELSE [ok |-> FALSE, val |-> PyInt(FALSE, <<>>)]

startswith(x, prefix) ==
    Len(x.s) >= Len(prefix) /\ SubSeq(x.s, 1, Len(prefix)) = prefix

(***************************************************************************)
(* is_string, is_alias (common.py 166-189).                                *)
(***************************************************************************)
is_string(param) ==
    LET is_int == int(param, 10).ok
        is_hex == param.t = "str" /\ startswith(param, <<"0", "x">>)
                     /\ int(param, 16).ok
    IN  ~is_int /\ ~is_hex

is_alias(param) == is_string(param)

(***************************************************************************)
(* nile.utils.str_to_felt: the ASCII bytes of the text packed big-endian   *)
(* into one integer; a text with a character outside ASCII has no such     *)
(* bytes and the conversion raises UnicodeEncodeError.                     *)
(***************************************************************************)
(* the bytes, first byte most significant: two base-16 limbs a byte *)
PackBytes(s) ==
    Reverse(DropZeros([i \in 1..(2 * Len(s)) |->
                          IF i % 2 = 1 THEN ord[s[(i + 1) \div 2]] \div 16
                          ELSE ord[s[i \div 2]] % 16]))

str_to_felt(x) ==
    IF \A i \in 1..Len(x.s) : isascii(x.s[i])
    THEN PyInt(FALSE, PackBytes(x.s))
    ELSE PyError("UnicodeEncodeError")

(***************************************************************************)
(* stringify, prepare_params (common.py 149-163).  An exception raised for *)
(* an element (by str_to_felt, or by str for a number over the limit of    *)
(* decimal digits) ends the whole call.                                    *)
(***************************************************************************)
felt_text(felt) == IF felt.t = "error" THEN felt ELSE str(felt)

stringify_scalar(x, process_short_strings) ==
    IF process_short_strings /\ is_string(x)
    THEN felt_text(str_to_felt(x))
    ELSE str(x)

(* the list comprehension: the first element that raises decides *)
comprehension(results) ==
    IF \E i \in 1..Len(results) : results[i].t = "error"
    THEN results[Min({i \in 1..Len(results) : results[i].t = "error"})]
    ELSE PyList(results)

RECURSIVE stringify(_, _)
stringify(x, process_short_strings) ==
    IF x.t \in {"list", "tuple"}
    THEN comprehension([i \in 1..Len(x.items) |->
                           stringify(x.items[i], process_short_strings)])
    ELSE stringify_scalar(x, process_short_strings)

prepare_params_raw(params) ==
    stringify(IF params = None THEN PyList(<<>>) ELSE params[1], FALSE)

prepare_params(params) ==
    stringify(IF params = None THEN PyList(<<>>) ELSE params[1], TRUE)

(***************************************************************************)
(* re.findall("0x[\\da-f]{1,64}", text): leftmost, greedy, non-overlapping *)
(* matches, scanning left to right (common.py 145 and 229).                *)
(***************************************************************************)
MaxHexDigits == 64

(* \d of a str pattern: every Unicode decimal digit *)
IsDecimal(c) ==
    c \in {"0", "1", "2", "3", "4", "5", "6", "7", "8", "9"}
        \/ c \in DOMAIN UnicodeDecimal

InClass(c) == IsDecimal(c) \/ c \in {"a", "b", "c", "d", "e", "f"}

(* the greedy {1,cap}: the class characters from index i on, at most cap *)
RunLen(s, i, cap) ==
    Min({cap} \cup {j - i : j \in {k \in i..(Len(s) + 1) :
                                      k = Len(s) + 1 \/ ~InClass(s[k])}})

(* the length of the match that starts at index i, 0 when none does *)
MatchLenAt(s, i) ==
    IF i + 2 <= Len(s) /\ s[i] = "0" /\ s[i + 1] = "x" /\ InClass(s[i + 2])
    THEN 2 + RunLen(s, i + 2, MaxHexDigits)
    ELSE 0

(* the scan: the next match starts at the first index from i on where one *)
(* does, and the scan goes on behind it                                     *)
RECURSIVE findall_from(_, _)
findall_from(s, i) ==
    LET starts == {j \in i..Len(s) : MatchLenAt(s, j) > 0}
    IN  IF starts = {} THEN <<>>
        ELSE <<SubSeq(s, Min(starts), Min(starts) + MatchLenAt(s, Min(starts)) - 1)>>
                 \o findall_from(s, Min(starts) + MatchLenAt(s, Min(starts)))

findall(s) == findall_from(s, 1)

(* nile.utils.normalize_number on a "0x..." capture: its base-16 value *)
normalize_number(number) == int(PyStr(number), 16).val

(***************************************************************************)
(* parse_information (common.py 142-146): the two-name unpacking raises    *)
(* ValueError unless findall gave exactly two matches.                     *)
(***************************************************************************)
parse_information(x) ==
    LET found == findall(x)
    IN  IF Len(found) # 2 THEN [ok |-> FALSE, error |-> "ValueError"]
        ELSE [ok |-> TRUE,
              value |-> <<normalize_number(found[1]), normalize_number(found[2])>>]

(***************************************************************************)
(* get_addresses_from_string (common.py 226-230).                          *)
(***************************************************************************)
get_addresses_from_string(string) ==
    LET found == findall(string)
    IN  {int(PyStr(found[i]), 16).val : i \in 1..Len(found)}

(***************************************************************************)
(* The encoder and the parser as called by a workflow: a call of one of    *)
(* the pure functions records its argument and what it returned or raised; *)
(* the caller then takes the result.                                       *)
(***************************************************************************)
ParamAlphabet ==
    {"0", "1", "x", "a", "_", "-", "\r", chr(1635), chr(160)}

Strs(n) == UNION {[1..k -> ParamAlphabet] : k \in 0..n}

(* 2^14400, a number of 4335 decimal digits *)
LongInt(neg) == PyInt(neg, Rep(0, 3600) \o <<1>>)

(* values around the limit of decimal digits: one digit too many, the most *)
(* zeros that parse, the same digits in base 16, and numbers too long to   *)
(* be written                                                              *)
LongScalars ==
    {PyStr(Rep("1", int_max_str_digits + 1)),
     PyStr(Rep("0", int_max_str_digits + 1)),
     PyStr(Rep("0", int_max_str_digits)),
     PyStr(<<"-">> \o Rep("0", int_max_str_digits)),
     PyStr(<<"0", "x">> \o Rep("1", int_max_str_digits + 1)),
     LongInt(FALSE), LongInt(TRUE)}

Scalars ==
    {PyStr(s) : s \in Strs(MaxParamLen)}
        \cup {PyStr(<<"a", "b", "c">>), PyStr(<<"0", "X", "1">>),
              PyStr(<<"+", "1">>), PyStr(<<" ", "1", "\t">>), PyStr(<<"g">>),
              PyStr(<<"0", "x", "g">>), PyStr(<<chr(28), "1">>),
              PyStr(<<chr(11), "1", "\f">>), PyStr(<<chr(1632), "x", "1">>),
              PyStr(<<chr(65297), "f">>), PyStr(<<"0", "x", chr(1633)>>),
              PyStr(<<chr(233)>>), PyStr(<<"1", chr(12288)>>)}
        \cup {PyInt(FALSE, <<>>), PyInt(FALSE, <<5>>), PyInt(TRUE, <<2, 1>>)}
        \cup LongScalars

ListScalars ==
    {PyInt(FALSE, <<1>>), PyStr(<<"0", "x", "1">>), PyStr(<<"a", "b">>),
     PyStr(<<"a", chr(233)>>), LongInt(FALSE)}

SeqsUpTo(S, n) == UNION {[1..k -> S] : k \in 0..n}

InnerScalars == {PyInt(FALSE, <<1>>), PyStr(<<"a", "b">>)}

InnerLists ==
    {PyList(s) : s \in SeqsUpTo(InnerScalars, MaxInnerLen)}
        \cup {PyTuple(s) : s \in SeqsUpTo(InnerScalars, MaxInnerLen)}

ParamLists ==
    {PyList(s) : s \in SeqsUpTo(ListScalars \cup InnerLists, MaxListLen)}
        \cup {PyTuple(s) : s \in SeqsUpTo(ListScalars \cup InnerLists, MaxListLen)}

Segments ==
    {<<"0", "x", "1">>, <<"0", "x", "0", "1">>, <<"0", "x">>, <<"0">>,
     <<"a">>, <<"g">>, <<"0", "x", chr(1635)>>}

RECURSIVE ShortTexts(_)
ShortTexts(n) ==
    IF n = 0 THEN {<<>>}
    ELSE LET T == ShortTexts(n - 1) IN T \cup {x \o s : x \in T, s \in Segments}

(* texts with a run of hex digits around the longest a match may take *)
LongTexts ==
    {(pre \o <<"0", "x">>) \o (Rep("f", k) \o suf) :
        pre \in {<<>>, <<"0", "x", "1", "g">>},
        k \in (MaxHexDigits - 1)..(MaxHexDigits + 1),
        suf \in {<<>>, <<"a">>, <<"0", "x", "1">>, <<"g", "0", "x", "0", "1">>}}

(* texts with upper-case letters and with digits of other scripts *)
OtherTexts ==
    {<<"0", "x", "A", "1">>, <<"0", "X", "1">>, <<"0", "x", "1", "A", "0", "x", "2">>,
     <<"0", "x", "1", " ", "0", "x", chr(1633)>>,
     <<"a", " ", "0", "x", "1", chr(1634), " ", "b">>,
     <<"0", "x", chr(65297), "f">>, <<chr(1632), "x", "1">>,
     <<"0", "x", "1", " ", "0", "x", "2">>, <<"0", "x", "1", "\n", "0", "x", "1">>}

Texts == ShortTexts(MaxSegs) \cup LongTexts \cup OtherTexts

Idle == [fn |-> "idle"]

CallIsString ==
    /\ ret = Idle
    /\ \E v \in Scalars :
         ret' = [fn |-> "is_string", arg |-> v, out |-> is_string(v)]
    /\ UNCHANGED <<nodeFile, fileAtStart, fileWrites, GATEWAYS, environ,
                   discipline, direct, calls>>

CallIsAlias ==
    /\ ret = Idle
    /\ \E v \in Scalars :
         ret' = [fn |-> "is_alias", arg |-> v, out |-> is_alias(v)]
    /\ UNCHANGED <<nodeFile, fileAtStart, fileWrites, GATEWAYS, environ,
                   discipline, direct, calls>>

CallStringify ==
    /\ ret = Idle
    /\ \E x \in Scalars \cup ParamLists, p \in BOOLEAN :
         ret' = [fn |-> "stringify", arg |-> x, flag |-> p,
                 out |-> stringify(x, p)]
    /\ UNCHANGED <<nodeFile, fileAtStart, fileWrites, GATEWAYS, environ,
                   discipline, direct, calls>>

CallPrepareParams ==
    /\ ret = Idle
    /\ \E params \in {None} \cup {Some(l) : l \in ParamLists} :
         ret' = [fn |-> "prepare_params", arg |-> params,
                 out |-> prepare_params(params)]
    /\ UNCHANGED <<nodeFile, fileAtStart, fileWrites, GATEWAYS, environ,
                   discipline, direct, calls>>

CallParseInformation ==
    /\ ret = Idle
    /\ \E x \in Texts :
         ret' = [fn |-> "parse_information", arg |-> x,
                 out |-> parse_information(x)]
    /\ UNCHANGED <<nodeFile, fileAtStart, fileWrites, GATEWAYS, environ,
                   discipline, direct, calls>>

CallGetAddresses ==
    /\ ret = Idle
    /\ \E x \in Texts :
         ret' = [fn |-> "get_addresses_from_string", arg |-> x,
                 out |-> get_addresses_from_string(x)]
    /\ UNCHANGED <<nodeFile, fileAtStart, fileWrites, GATEWAYS, environ,
                   discipline, direct, calls>>

TakeResult ==
    /\ ret # Idle
    /\ ret' = Idle
    /\ UNCHANGED <<nodeFile, fileAtStart, fileWrites, GATEWAYS, environ,
                   discipline, direct, calls>>

(***************************************************************************)
(* The network configuration: node.json and the module-level GATEWAYS      *)
(* (common.py 14-51).  The file is its parsed JSON object, <<>> when the   *)
(* file does not exist.                                                    *)
(***************************************************************************)
BUILD_DIRECTORY == "artifacts"

ABIS_DIRECTORY == BUILD_DIRECTORY \o "/abis"

networks ==
    ("localhost" :> "http://127.0.0.1:5050/")
        @@ ("goerli2" :> "https://alpha4-2.starknet.io")
        @@ ("integration" :> "https://external.integration.starknet.io")

get_gateways_rewrite(file) ==
    [gateway |-> networks, file |-> Some(networks), writes |-> 1]

get_gateways(file) ==
    IF file # None
    THEN [gateway |-> file[1], file |-> file, writes |-> 0]
    ELSE [gateway |-> networks, file |-> Some(networks), writes |-> 1]

(* dict.get: None for a missing key; an f-string renders None as "None" *)
get(d, k) == IF k \in DOMAIN d THEN Some(d[k]) ELSE None

format(v) == IF v = None THEN "None" ELSE v[1]

(***************************************************************************)
(* get_network_parameter_or_set_env (common.py 192-204): the returned      *)
(* list and os.environ["STARKNET_NETWORK"] after the call.                 *)
(***************************************************************************)
get_network_parameter_or_set_env_mainnet_only(network, env, gateways) ==
    IF network = "mainnet"
    THEN [extra_param |-> <<>>, environ |-> Some("alpha-mainnet")]
    ELSE IF network = "goerli"
    THEN [extra_param |-> <<>>, environ |-> env]
    ELSE [extra_param |->
              <<"--gateway_url=" \o format(get(gateways, network)),
                "--feeder_gateway_url=" \o format(get(gateways, network))>>,
          environ |-> env]

get_network_parameter_or_set_env_swapped(network, env, gateways) ==
    IF network = "mainnet"
    THEN [extra_param |-> <<>>, environ |-> Some("alpha-goerli")]
    ELSE IF network = "goerli"
    THEN [extra_param |-> <<>>, environ |-> Some("alpha-mainnet")]
    ELSE [extra_param |->
              <<"--gateway_url=" \o format(get(gateways, network)),
                "--feeder_gateway_url=" \o format(get(gateways, network))>>,
          environ |-> env]

get_network_parameter_or_set_env(network, env, gateways) ==
    IF network = "mainnet"
    THEN [extra_param |-> <<>>, environ |-> Some("alpha-mainnet")]
    ELSE IF network = "goerli"
    THEN [extra_param |-> <<>>, environ |-> Some("alpha-goerli")]
    ELSE [extra_param |->
              <<"--gateway_url=" \o format(get(gateways, network)),
                "--feeder_gateway_url=" \o format(get(gateways, network))>>,
          environ |-> env]

(***************************************************************************)
(* run_command, the assembly of the command (common.py 83-117).  a is the  *)
(* record of the call's arguments and extra_param what line 115 got from   *)
(* get_network_parameter_or_set_env.  The encoded parameters are the       *)
(* tokens prepare_params returns; the callers pass flat parameter lists.   *)
(***************************************************************************)
tokens(l) == [i \in 1..Len(l.items) |-> Join(l.items[i].s)]

truthy(tuple) == tuple # None /\ tuple[1] # <<>>

base_path(a) ==
    IF truthy(a.overriding_path) THEN a.overriding_path[1]
    ELSE <<BUILD_DIRECTORY, ABIS_DIRECTORY>>

contract_path(a) == base_path(a)[1] \o "/" \o a.contract_name[1] \o ".json"

run_command_build_fee_last(a, extra_param) ==
    <<"starknet", a.operation>>
        \o (IF a.contract_name # None
            THEN <<"--contract", contract_path(a)>> ELSE <<>>)
        \o (IF a.inputs # None
            THEN <<"--inputs">> \o tokens(prepare_params(a.inputs)) ELSE <<>>)
        \o (IF a.signature # None
            THEN <<"--signature">> \o tokens(prepare_params(a.signature))
            ELSE <<>>)
        \o (IF a.mainnet_token # None
                THEN <<"--token", a.mainnet_token[1]>> ELSE <<>>)
        \o (IF a.max_fee # None THEN <<"--max_fee", a.max_fee[1]>> ELSE <<>>)
        \o (IF a.query_flag # None THEN <<"--" \o a.query_flag[1]>> ELSE <<>>)
        \o (IF a.arguments # None THEN a.arguments[1] ELSE <<>>)
        \o extra_param
        \o <<"--no_wallet">>

run_command_build(a, extra_param) ==
    <<"starknet", a.operation>>
        \o (IF a.contract_name # None
            THEN <<"--contract", contract_path(a)>> ELSE <<>>)
        \o (IF a.inputs # None
            THEN <<"--inputs">> \o tokens(prepare_params(a.inputs)) ELSE <<>>)
        \o (IF a.signature # None
            THEN <<"--signature">> \o tokens(prepare_params(a.signature))
            ELSE <<>>)
        \o (IF a.max_fee # None THEN <<"--max_fee", a.max_fee[1]>> ELSE <<>>)
        \o (IF a.mainnet_token # None
                THEN <<"--token", a.mainnet_token[1]>> ELSE <<>>)
        \o (IF a.query_flag # None THEN <<"--" \o a.query_flag[1]>> ELSE <<>>)
        \o (IF a.arguments # None THEN a.arguments[1] ELSE <<>>)
        \o extra_param
        \o <<"--no_wallet">>

(***************************************************************************)
(* bytes.strip() and bytes.decode("utf-8"): what the subprocess wrote is   *)
(* bytes; decode is strict, ok = FALSE stands for the UnicodeDecodeError.  *)
(***************************************************************************)
bytes(s) == [i \in 1..Len(s) |-> ord[s[i]]]

isspace(b) == b \in {9, 10, 11, 12, 13, 32}

bytes_strip(b) ==
    IF \A i \in 1..Len(b) : isspace(b[i]) THEN <<>>
    ELSE SubSeq(b, Min({i \in 1..Len(b) : ~isspace(b[i])}),
                   Max({i \in 1..Len(b) : ~isspace(b[i])}))

byte_at(b, i) == IF i <= Len(b) THEN b[i] ELSE 256

continuation(b, i) == byte_at(b, i) \in 128..191

(* the length of the well-formed UTF-8 sequence at index i, 0 when the     *)
(* bytes there are none (no overlong form, no surrogate, at most U+10FFFF) *)
utf8_len(b, i) ==
    CASE b[i] < 128 -> 1
      [] b[i] \in 194..223 /\ continuation(b, i + 1) -> 2
      [] /\ \/ b[i] = 224 /\ byte_at(b, i + 1) \in 160..191
            \/ b[i] \in (225..236) \cup (238..239) /\ continuation(b, i + 1)
            \/ b[i] = 237 /\ byte_at(b, i + 1) \in 128..159
         /\ continuation(b, i + 2) -> 3
      [] /\ \/ b[i] = 240 /\ byte_at(b, i + 1) \in 144..191
            \/ b[i] \in 241..243 /\ continuation(b, i + 1)
            \/ b[i] = 244 /\ byte_at(b, i + 1) \in 128..143
         /\ continuation(b, i + 2)
         /\ continuation(b, i + 3) -> 4
      [] OTHER -> 0

utf8_code(b, i, n) ==
    CASE n = 1 -> b[i]
      [] n = 2 -> (b[i] - 192) * 64 + (b[i + 1] - 128)
      [] n = 3 -> (b[i] - 224) * 4096 + (b[i + 1] - 128) * 64 + (b[i + 2] - 128)
      [] n = 4 -> (b[i] - 240) * 262144 + (b[i + 1] - 128) * 4096
                    + (b[i + 2] - 128) * 64 + (b[i + 3] - 128)

RECURSIVE utf8_valid(_, _)
utf8_valid(b, i) ==
    i > Len(b) \/ (utf8_len(b, i) > 0 /\ utf8_valid(b, i + utf8_len(b, i)))

RECURSIVE utf8_chars(_, _)
utf8_chars(b, i) ==
    IF i > Len(b) THEN <<>>
    ELSE <<chr(utf8_code(b, i, utf8_len(b, i)))>>
             \o utf8_chars(b, i + utf8_len(b, i))

decode(b) ==
    IF utf8_valid(b, 1) THEN [ok |-> TRUE, s |-> utf8_chars(b, 1)]
    ELSE [ok |-> FALSE, s |-> <<>>]

(***************************************************************************)
(* run_command, the two ends of the subprocess (common.py 119-139): what   *)
(* the call returns (result) or raises (raised).                           *)
(***************************************************************************)
MAX_FEE_PATTERN ==
    <<"m", "a", "x", "_", "f", "e", "e", " ", "m", "u", "s", "t", " ",
    "b", "e", " ", "b", "i", "g", "g", "e", "r", " ", "t", "h", "a", "n",
    " ", "0">>

EXECUTE_PATTERN ==
    <<"t", "r", "a", "n", "s", "a", "c", "t", "i", "o", "n", "s", " ",
    "s", "h", "o", "u", "l", "d", " ", "g", "o", " ", "t", "h", "r", "o",
    "u", "g", "h", " ", "t", "h", "e", " ", "_", "_", "e", "x", "e", "c",
    "u", "t", "e", "_", "_", " ", "e", "n", "t", "r", "y", "p", "o", "i",
    "n", "t", ".">>

contains(pattern, text) ==
    \E i \in 0..(Len(text) - Len(pattern)) :
        SubSeq(text, i + 1, i + Len(pattern)) = pattern

outcome(raised, err_msg, hint, result) ==
    [raised |-> raised, err_msg |-> err_msg, hint |-> hint, result |-> result]

(* check_output(command).strip().decode("utf-8") on exit code zero *)
run_command_success(stdout) ==
    IF decode(bytes_strip(stdout)).ok
    THEN outcome("none", <<>>, "none", decode(bytes_strip(stdout)).s)
    ELSE outcome("UnicodeDecodeError", <<>>, "none", <<>>)

(* the except branch: the hint logged for err_msg *)
run_command_hint(err_msg) ==
    IF contains(MAX_FEE_PATTERN, err_msg) THEN "max_fee"
    ELSE IF contains(EXECUTE_PATTERN, err_msg) THEN "account"
    ELSE "none"

(* the except branch from error.decode() on: lines 124-139 *)
run_command_failure(error) ==
    IF decode(error).ok
    THEN outcome("none", decode(error).s, run_command_hint(decode(error).s), <<>>)
    ELSE outcome("UnicodeDecodeError", <<>>, "none", <<>>)

(***************************************************************************)
(* The process: the import of the module runs get_gateways once; then      *)
(* threads call run_command, and get_network_parameter_or_set_env is also  *)
(* called on its own.  A call of run_command is atomic up to the launch of *)
(* the subprocess (the assembly is local), launches it (the subprocess     *)
(* takes the environment of that moment: observed), blocks until it exits, *)
(* and on a non-zero exit launches it a second time and blocks again to    *)
(* read its standard error.  discipline is what the callers do about       *)
(* concurrency: "none", "run_command" (no run_command starts while another *)
(* is in progress) or "all" (nor does a direct call of                     *)
(* get_network_parameter_or_set_env run while a run_command is in          *)
(* progress).  direct is the last direct call: its argument and what it    *)
(* returned.                                                               *)
(***************************************************************************)
Threads == {"t1", "t2"}

Networks == {"mainnet", "goerli", "localhost", "devnet"}

NodeFiles ==
    {None,
     Some(("localhost" :> "http://node:5050") @@ ("devnet" :> "http://devnet"))}

Stdouts ==
    {<<>>,
     <<11>> \o bytes(<<" ", "0", "x", "1", " ", "0", "x", "0", "1", "\r", "\n">>),
     <<217, 163, 10>>,
     <<255, 254>>}

Stderrs ==
    {bytes(<<"E", "r", "r", "o", "r">>),
     bytes(<<"E", ":", " ">> \o MAX_FEE_PATTERN \o <<"\n">>),
     bytes(EXECUTE_PATTERN),
     bytes(EXECUTE_PATTERN \o <<" ">> \o MAX_FEE_PATTERN),
     <<255, 254>>}

(* the outputs of the subprocesses of concurrent callers *)
SmallStdouts == {bytes(<<"0", "x", "1", "\n">>)}

SmallStderrs == {bytes(MAX_FEE_PATTERN)}

NonZeroCodes == {1}

Disciplines == {"none", "run_command", "all"}

NoArgs ==
    [operation |-> "", network |-> "", contract_name |-> None,
     arguments |-> None, inputs |-> None, signature |-> None,
     max_fee |-> None, query_flag |-> None, overriding_path |-> None,
     mainnet_token |-> None]

SmallArgs ==
    [operation : {"invoke"}, network : {"mainnet", "goerli", "localhost"},
     contract_name : {Some("contract")}, arguments : {None},
     inputs : {Some(PyList(<<PyStr(<<"a", "b">>)>>))}, signature : {None},
     max_fee : {Some("100")}, query_flag : {None},
     overriding_path : {None}, mainnet_token : {None}]

AllArgs ==
    [operation : {"deploy"}, network : Networks,
     contract_name : {None, Some("contract")},
     arguments : {None, Some(<<"--address", "0x1">>)},
     inputs : {None, Some(PyList(<<>>)),
               Some(PyList(<<PyInt(FALSE, <<1>>), PyStr(<<"a", "b">>)>>))},
     signature : {None,
                  Some(PyTuple(<<PyStr(<<"0", "x", "1">>), PyInt(FALSE, <<7>>)>>))},
     max_fee : {None, Some("100")},
     query_flag : {None, Some("estimate_fee")},
     overriding_path : {None, Some(<<>>), Some(<<"build", "build/abis">>)},
     mainnet_token : {None, Some("token")}]

IdleCall ==
    [pc |-> "idle", args |-> NoArgs, command |-> <<>>, extra_param |-> <<>>,
     observed |-> <<>>, code |-> 0, err_msg |-> <<>>, hint |-> "none",
     result |-> <<>>, raised |-> "none"]

NoDirect == [network |-> "", extra_param |-> <<>>]

Init ==
    /\ nodeFile \in NodeFiles
    /\ fileAtStart = nodeFile
    /\ fileWrites = 0
    /\ GATEWAYS = None
    /\ environ = None
    /\ discipline \in Disciplines
    /\ direct = NoDirect
    /\ calls = [t \in Threads |-> IdleCall]
    /\ ret = Idle

(* import nile.common: GATEWAYS = get_gateways() *)
ModuleInit ==
    /\ GATEWAYS = None
    /\ GATEWAYS' = Some(get_gateways(nodeFile).gateway)
    /\ nodeFile' = get_gateways(nodeFile).file
    /\ fileWrites' = fileWrites + get_gateways(nodeFile).writes
    /\ UNCHANGED <<fileAtStart, environ, discipline, direct, calls, ret>>

InProgress(t) == calls[t].pc \notin {"idle", "done"}

(* get_network_parameter_or_set_env called on its own *)
Resolved(network, net) ==
    /\ direct' = [network |-> network, extra_param |-> net.extra_param]
    /\ environ' = net.environ

Resolve ==
    /\ GATEWAYS # None
    /\ discipline = "all" => \A t \in Threads : ~InProgress(t)
    /\ \E network \in Networks :
         Resolved(network,
                  get_network_parameter_or_set_env(network, environ, GATEWAYS[1]))
    /\ UNCHANGED <<nodeFile, fileAtStart, fileWrites, GATEWAYS, discipline,
                   calls, ret>>

(* run_command up to the first launch: lines 83-117 *)
Started(t, a, net) ==
    /\ calls' = [calls EXCEPT ![t] =
           [IdleCall EXCEPT !.pc = "ready", !.args = a,
                            !.command = run_command_build(a, net.extra_param),
                            !.extra_param = net.extra_param]]
    /\ environ' = net.environ

Start(t, Args) ==
    /\ GATEWAYS # None
    /\ calls[t].pc = "idle"
    /\ discipline # "none" => \A u \in Threads \ {t} : ~InProgress(u)
    /\ \E a \in Args :
         Started(t, a,
                 get_network_parameter_or_set_env(a.network, environ, GATEWAYS[1]))
    /\ UNCHANGED <<nodeFile, fileAtStart, fileWrites, GATEWAYS, discipline,
                   direct, ret>>

(* subprocess.check_output(command) starts the subprocess: line 120 *)
Launch(t) ==
    /\ calls[t].pc = "ready"
    /\ calls' = [calls EXCEPT ![t].pc = "running",
                              ![t].observed = Append(@, environ)]
    /\ UNCHANGED <<nodeFile, fileAtStart, fileWrites, GATEWAYS, environ,
                   discipline, direct, ret>>

Finished(t, code, out) ==
    calls' = [calls EXCEPT ![t].pc = "done", ![t].code = code,
                           ![t].err_msg = out.err_msg, ![t].hint = out.hint,
                           ![t].result = out.result, ![t].raised = out.raised]

(* the subprocess exits with code zero: the rest of line 120 *)
ExitOk(t, Outputs) ==
    /\ calls[t].pc = "running"
    /\ \E stdout \in Outputs : Finished(t, 0, run_command_success(stdout))
    /\ UNCHANGED <<nodeFile, fileAtStart, fileWrites, GATEWAYS, environ,
                   discipline, direct, ret>>

(* the subprocess exits with another code: CalledProcessError, line 121 *)
ExitFail(t) ==
    /\ calls[t].pc = "running"
    /\ \E code \in NonZeroCodes :
         calls' = [calls EXCEPT ![t].pc = "failed", ![t].code = code]
    /\ UNCHANGED <<nodeFile, fileAtStart, fileWrites, GATEWAYS, environ,
                   discipline, direct, ret>>

(* subprocess.Popen(command, stderr=PIPE) starts it again: line 122 *)
Relaunch(t) ==
    /\ calls[t].pc = "failed"
    /\ calls' = [calls EXCEPT ![t].pc = "relaunched",
                              ![t].observed = Append(@, environ)]
    /\ UNCHANGED <<nodeFile, fileAtStart, fileWrites, GATEWAYS, environ,
                   discipline, direct, ret>>

(* p.communicate() returns the standard error: lines 123-139 *)
Communicate(t, Errors) ==
    /\ calls[t].pc = "relaunched"
    /\ \E error \in Errors :
         Finished(t, calls[t].code, run_command_failure(error))
    /\ UNCHANGED <<nodeFile, fileAtStart, fileWrites, GATEWAYS, environ,
                   discipline, direct, ret>>

(* the caller has the result or the exception and may call again *)
Return(t) ==
    /\ calls[t].pc = "done"
    /\ calls' = [calls EXCEPT ![t] = IdleCall]
    /\ UNCHANGED <<nodeFile, fileAtStart, fileWrites, GATEWAYS, environ,
                   discipline, direct, ret>>

StartSmall(t) == Start(t, SmallArgs)

StartAny == Start("t1", AllArgs)

Next ==
    \/ ModuleInit
    \/ Resolve
    \/ \E t \in Threads : StartSmall(t)
    \/ \E t \in Threads : Launch(t)
    \/ \E t \in Threads : ExitOk(t, SmallStdouts)
    \/ \E t \in Threads : ExitFail(t)
    \/ \E t \in Threads : Relaunch(t)
    \/ \E t \in Threads : Communicate(t, SmallStderrs)
    \/ \E t \in Threads : Return(t)

Spec == Init /\ [][Next]_vars

(* one caller, every combination of present and absent arguments and every *)
(* kind of output of the subprocess                                        *)
InitCommand == Init /\ discipline = "all"

NextCommand ==
    \/ ModuleInit
    \/ StartAny
    \/ Launch("t1")
    \/ ExitOk("t1", Stdouts)
    \/ ExitFail("t1")
    \/ Relaunch("t1")
    \/ Communicate("t1", Stderrs)
    \/ Return("t1")

SpecCommand == InitCommand /\ [][NextCommand]_vars

(* the encoder and the parser, called after the import *)
InitPure ==
    /\ nodeFile = Some(networks)
    /\ fileAtStart = None
    /\ fileWrites = 1
    /\ GATEWAYS = Some(networks)
    /\ environ = None
    /\ discipline = "all"
    /\ direct = NoDirect
    /\ calls = [t \in Threads |-> IdleCall]
    /\ ret = Idle

NextPure ==
    \/ CallIsString
    \/ CallIsAlias
    \/ CallStringify
    \/ CallPrepareParams
    \/ CallParseInformation
    \/ CallGetAddresses
    \/ TakeResult

SpecPure == InitPure /\ [][NextPure]_vars

(***************************************************************************)
(* Properties.  What the claims say is written here from their wording,    *)
(* with the text structure spelt out by positions and the numbers computed *)
(* with ordinary integers, not with the operators above; only the tables   *)
(* of characters (ord, UnicodeSpaces, UnicodeDecimal) are shared.          *)
(***************************************************************************)
HexLower ==
    <<"0", "1", "2", "3", "4", "5", "6", "7", "8", "9",
      "a", "b", "c", "d", "e", "f">>

IsHexLower(c) == \E k \in 1..16 : HexLower[k] = c

HexLowerVal(c) == (CHOOSE k \in 1..16 : HexLower[k] = c) - 1

(* "0x" and at least one lowercase hex digit stand at position i *)
TokenStart(s, i) ==
    i + 2 <= Len(s) /\ s[i] = "0" /\ s[i + 1] = "x" /\ IsHexLower(s[i + 2])

HexRun(s, i, k) == i + 1 + k <= Len(s) /\ \A j \in 1..k : IsHexLower(s[i + 1 + j])

(* the token at i: "0x" and the longest run of 1 to 64 hex digits *)
TokenLen(s, i) ==
    2 + (CHOOSE k \in 1..64 : HexRun(s, i, k) /\ (k = 64 \/ ~HexRun(s, i, k + 1)))

(* the starts of the matches: a token start that no earlier match covers *)
MatchStarts(s) ==
    LET H == {i \in 1..Len(s) : TokenStart(s, i)}
    IN  CHOOSE M \in SUBSET H :
          \A i \in H : i \in M <=> \A j \in M : j < i => j + TokenLen(s, j) <= i

(* the integer a token's hex digits denote *)
TokenValue(s, i) ==
    LET n  == TokenLen(s, i) - 2
        nz == {j \in 1..n : s[i + 1 + j] # "0"}
    IN  PyInt(FALSE,
              IF nz = {} THEN <<>>
              ELSE [k \in 1..(n - Min(nz) + 1) |-> HexLowerVal(s[i + 2 + n - k])])

(* C3: parse_information returns a pair exactly when the text holds exactly
   two matches of 0x[0-9a-f]{1,64}, and the pair is then the values of the
   first and the second match; with any other number of matches it raises
   (the ValueError of the unpacking) and returns nothing. *)
C3_ParseExactlyTwo ==
    ret.fn = "parse_information" =>
        LET M == MatchStarts(ret.arg)
        IN  IF Cardinality(M) = 2
            THEN /\ ret.out.ok
                 /\ ret.out.value = <<TokenValue(ret.arg, Min(M)),
                                      TokenValue(ret.arg, Max(M))>>
            ELSE /\ ~ret.out.ok
                 /\ ret.out.error = "ValueError"
                 /\ "value" \notin DOMAIN ret.out

(* C9: get_addresses_from_string returns exactly the set of the values of
   the matches of 0x[0-9a-f]{1,64} in the text; equal values are one
   element, a text without a match gives the empty set. *)
C9_AddressSet ==
    ret.fn = "get_addresses_from_string" =>
        ret.out = {TokenValue(ret.arg, i) : i \in MatchStarts(ret.arg)}

Whitespace == {" ", "\t", "\n", "\r", "\f", chr(11)} \cup UnicodeSpaces

DecimalDigits ==
    {"0", "1", "2", "3", "4", "5", "6", "7", "8", "9"} \cup DOMAIN UnicodeDecimal

HexDigits ==
    DecimalDigits \cup {"a", "b", "c", "d", "e", "f", "A", "B", "C", "D", "E", "F"}

(* the text without its surrounding whitespace *)
Inner(s) ==
    LET ns == {i \in 1..Len(s) : s[i] \notin Whitespace}
    IN  IF ns = {} THEN <<>> ELSE SubSeq(s, Min(ns), Max(ns))

Unsigned(s) == IF s # <<>> /\ s[1] \in {"+", "-"} THEN Tail(s) ELSE s

(* digits, single underscores allowed between two digits *)
Grouped(d, Digits) ==
    /\ d # <<>>
    /\ \A i \in 1..Len(d) : d[i] \in Digits \cup {"_"}
    /\ d[1] \in Digits
    /\ d[Len(d)] \in Digits
    /\ \A i \in 1..(Len(d) - 1) : ~(d[i] = "_" /\ d[i + 1] = "_")

(* the text parses as a base-10 integer *)
DecimalText(s) == Grouped(Unsigned(Inner(s)), DecimalDigits)

(* the text starts with "0x" and parses as base 16 *)
HexText(s) ==
    /\ Len(s) >= 2 /\ s[1] = "0" /\ s[2] = "x"
    /\ LET b == SubSeq(Inner(s), 3, Len(Inner(s)))
       IN  Grouped(IF b # <<>> /\ b[1] = "_" THEN Tail(b) ELSE b, HexDigits)

ShortString(v) == v.t = "str" /\ ~DecimalText(v.s) /\ ~HexText(v.s)

(* the decimal digits of the text *)
DigitCount(s) == Cardinality({i \in 1..Len(s) : s[i] \in DecimalDigits})

(* the text parses as a base-10 integer under the interpreter's limit *)
ConvertibleText(s) == DecimalText(s) /\ DigitCount(s) <= int_max_str_digits

(* a short string as the interpreter with its limit classifies *)
ShortStringWithinLimit(v) ==
    v.t = "str" /\ ~ConvertibleText(v.s) /\ ~HexText(v.s)

(* the number has more than int_max_str_digits decimal digits: it is at    *)
(* least 10^4300, a number of 3572 hexadecimal digits                      *)
TooLong(mag) ==
    \/ Len(mag) > 3572
    \/ Len(mag) = 3572 /\ Len(DecDigits(mag)) > int_max_str_digits

(* C4: is_string(v) is true exactly when v neither parses as a base-10
   integer nor both starts with "0x" and parses as base 16; a string of
   digits and "0x" followed by hex digits are never short strings; is_alias
   answers the same. *)
C4_Classification ==
    /\ ret.fn \in {"is_string", "is_alias"} =>
         /\ ret.out = ShortString(ret.arg)
         /\ ret.arg.t = "int" => ~ret.out
         /\ ( /\ ret.arg.t = "str"
              /\ ret.arg.s # <<>>
              /\ \A i \in 1..Len(ret.arg.s) : ret.arg.s[i] \in DecimalDigits )
                => ~ret.out
         /\ ( /\ ret.arg.t = "str"
              /\ Len(ret.arg.s) > 2
              /\ SubSeq(ret.arg.s, 1, 2) = <<"0", "x">>
              /\ \A i \in 3..Len(ret.arg.s) : ret.arg.s[i] \in HexDigits )
                => ~ret.out

(* C4 within the interpreter's limit: the classification is as C4 states
   it once "parses as a base-10 integer" is read with the limit of
   int_max_str_digits decimal digits. *)
C4_ClassificationWithinLimit ==
    ret.fn \in {"is_string", "is_alias"} =>
        /\ ret.out = ShortStringWithinLimit(ret.arg)
        /\ ret.arg.t = "int" => ~ret.out
        /\ ( /\ ret.arg.t = "str"
             /\ Len(ret.arg.s) > 2
             /\ SubSeq(ret.arg.s, 1, 2) = <<"0", "x">>
             /\ \A i \in 3..Len(ret.arg.s) : ret.arg.s[i] \in HexDigits )
               => ~ret.out

(* a text of digits, one more than the limit, classified as a short string *)
C4_LongDigitsAreShortString ==
    /\ ret.fn = "is_string"
    /\ ret.arg = PyStr(Rep("1", int_max_str_digits + 1))
    /\ ret.out

Digit(d) == <<"0", "1", "2", "3", "4", "5", "6", "7", "8", "9">>[d + 1]

RECURSIVE NatDec(_)
NatDec(n) == IF n < 10 THEN <<Digit(n)>> ELSE NatDec(n \div 10) \o <<Digit(n % 10)>>

RECURSIVE LimbsNat(_)
LimbsNat(mag) == IF mag = <<>> THEN 0 ELSE Head(mag) + 16 * LimbsNat(Tail(mag))

(* the bytes of the text as one big-endian number *)
RECURSIVE FeltNat(_)
FeltNat(s) ==
    IF s = <<>> THEN 0
    ELSE FeltNat(SubSeq(s, 1, Len(s) - 1)) * 256 + ord[s[Len(s)]]

(* the value's own textual form *)
TextOf(x) ==
    IF x.t = "str" THEN x.s
    ELSE (IF x.neg THEN <<"-">> ELSE <<>>) \o NatDec(LimbsNat(x.mag))

(* the text has ASCII bytes to pack *)
HasBytes(s) == \A i \in 1..Len(s) : isascii(s[i])

(* the packed bytes as limbs *)
RECURSIVE FeltLimbs(_)
FeltLimbs(s) ==
    IF s = <<>> THEN <<>>
    ELSE MulAdd(FeltLimbs(SubSeq(s, 1, Len(s) - 1)), 256, ord[s[Len(s)]])

(* the hexadecimal digits of the packed bytes: two a byte, leading zeros   *)
(* not counted                                                             *)
FeltHexLen(s) ==
    IF \A i \in 1..Len(s) : ord[s[i]] = 0 THEN 0
    ELSE LET first == CHOOSE i \in 1..Len(s) :
                          ord[s[i]] # 0 /\ \A j \in 1..(i - 1) : ord[s[j]] = 0
         IN  2 * (Len(s) - first) + (IF ord[s[first]] >= 16 THEN 2 ELSE 1)

(* the packed bytes have more than int_max_str_digits decimal digits *)
FeltTooLong(s) ==
    \/ FeltHexLen(s) > 3572
    \/ FeltHexLen(s) = 3572 /\ TooLong(FeltLimbs(s))

(* the felt encoding of a short string: the decimal text of the packed     *)
(* bytes, or the error of the packing or of writing a number too long      *)
FeltToken(x) ==
    IF ~HasBytes(x.s) THEN PyError("UnicodeEncodeError")
    ELSE IF FeltTooLong(x.s) THEN PyError("ValueError")
    ELSE PyStr(NatDec(FeltNat(x.s)))

(* the textual form of a value that is not felt-encoded *)
OwnText(x) ==
    IF x.t = "int" /\ TooLong(x.mag) THEN PyError("ValueError")
    ELSE PyStr(TextOf(x))

(* C5: stringify(x, p) on a scalar applies the felt encoding (the decimal
   text of the packed bytes of x, an error when x has no ASCII bytes) when
   p is set and x is a short string, and is the textual form of x itself
   otherwise; the felt text of a short string is never its own text. *)
C5_FeltOnlyShortStrings ==
    (ret.fn = "stringify" /\ ret.arg.t \in {"str", "int"}) =>
        IF ret.flag /\ ShortString(ret.arg)
        THEN /\ ret.out = FeltToken(ret.arg)
             /\ ret.out # PyStr(TextOf(ret.arg))
        ELSE /\ ret.out.t = "str"
             /\ ret.out.s = TextOf(ret.arg)

(* C5 within the interpreter's limit: the felt encoding is applied exactly
   to what is_string classifies as a short string when the flag is set, and
   any other value is its own text, or ValueError for a number of more than
   int_max_str_digits decimal digits. *)
C5_FeltWithinLimit ==
    (ret.fn = "stringify" /\ ret.arg.t \in {"str", "int"}) =>
        IF ret.flag /\ ShortStringWithinLimit(ret.arg)
        THEN ret.out = FeltToken(ret.arg)
        ELSE ret.out = OwnText(ret.arg)

(* a number too long to be written: stringify raises *)
C5_LongIntRaises ==
    /\ ret.fn = "stringify"
    /\ ~ret.flag
    /\ ret.arg = LongInt(FALSE)
    /\ ret.out = PyError("ValueError")

(* the token of a scalar parameter, short-string processing enabled *)
Token(x) == IF ShortStringWithinLimit(x) THEN FeltToken(x) ELSE OwnText(x)

IsSequence(x) == x.t \in {"list", "tuple"}

RECURSIVE FlatTokens(_)
FlatTokens(items) ==
    IF items = <<>> THEN <<>>
    ELSE (IF IsSequence(Head(items)) THEN FlatTokens(Head(items).items)
          ELSE <<Token(Head(items))>>) \o FlatTokens(Tail(items))

(* every scalar, at any depth, has a token *)
RECURSIVE AllEncodable(_)
AllEncodable(items) ==
    \A i \in 1..Len(items) :
        IF IsSequence(items[i]) THEN AllEncodable(items[i].items)
        ELSE Token(items[i]).t = "str"

(* the errors of the scalars, in left-to-right order *)
RECURSIVE Errors(_)
Errors(items) ==
    IF items = <<>> THEN <<>>
    ELSE (IF IsSequence(Head(items)) THEN Errors(Head(items).items)
          ELSE IF Token(Head(items)).t = "error" THEN <<Token(Head(items))>>
          ELSE <<>>) \o Errors(Tail(items))

TopLevel(params) == IF params = None THEN <<>> ELSE params[1].items

(* C6 as claimed: prepare_params returns the flat sequence of the tokens of
   all scalars, nested lists and tuples flattened, in left-to-right order. *)
C6_Flattened ==
    (ret.fn = "prepare_params" /\ AllEncodable(TopLevel(ret.arg))) =>
        /\ ret.out.t = "list"
        /\ ret.out.items = FlatTokens(TopLevel(ret.arg))

(* C6 as amended: prepare_params returns a list with one entry per top-level
   element in the original order; the entry of a scalar is its token, the
   entry of a list or tuple is the list of its elements' tokens (nesting is
   kept); prepare_params(None) is empty; the result is a flat sequence of
   strings exactly when no element is a list or tuple; when some scalar
   cannot be converted (a short string without ASCII bytes, a number too
   long to be written) the call raises the error of the first of them. *)
C6_StructurePreserved ==
    ret.fn = "prepare_params" =>
        LET top == TopLevel(ret.arg)
            out == ret.out.items
        IN  IF ~AllEncodable(top) THEN ret.out = Head(Errors(top))
            ELSE
            /\ ret.out.t = "list"
            /\ Len(out) = Len(top)
            /\ ret.arg = None => out = <<>>
            /\ \A i \in 1..Len(top) :
                 IF IsSequence(top[i])
                 THEN /\ out[i].t = "list"
                      /\ Len(out[i].items) = Len(top[i].items)
                      /\ \A j \in 1..Len(top[i].items) :
                           out[i].items[j] = Token(top[i].items[j])
                 ELSE out[i] = Token(top[i])
            /\ (\A i \in 1..Len(out) : out[i].t = "str")
                 <=> (\A i \in 1..Len(top) : ~IsSequence(top[i]))

C6_Witness ==
    /\ ret.fn = "prepare_params"
    /\ ret.arg = Some(PyList(<<PyStr(<<"a", "b">>),
                               PyTuple(<<PyStr(<<"a", "b">>)>>)>>))
    /\ ret.out = PyList(<<PyStr(<<"2", "4", "9", "3", "0">>),
                          PyList(<<PyStr(<<"2", "4", "9", "3", "0">>)>>)>>)

(* the URL text of a network name: its entry in the mapping, else "None" *)
UrlOf(network) ==
    IF network \in DOMAIN GATEWAYS[1] THEN GATEWAYS[1][network] ELSE "None"

NetworkParams(network) ==
    IF network \in {"mainnet", "goerli"} THEN <<>>
    ELSE <<"--gateway_url=" \o UrlOf(network),
           "--feeder_gateway_url=" \o UrlOf(network)>>

EncodedTokens(l) == [i \in 1..Len(l.items) |-> Join(Token(l.items[i]).s)]

BaseDirectory(a) ==
    IF a.overriding_path = None \/ a.overriding_path = Some(<<>>)
    THEN "artifacts"
    ELSE a.overriding_path[1][1]

Present(o, component) == IF o = None THEN <<>> ELSE component

ExpectedCommand(a) ==
    <<"starknet", a.operation>>
      \o Present(a.contract_name,
                 <<"--contract",
                   BaseDirectory(a) \o "/" \o a.contract_name[1] \o ".json">>)
      \o Present(a.inputs, <<"--inputs">> \o EncodedTokens(a.inputs[1]))
      \o Present(a.signature, <<"--signature">> \o EncodedTokens(a.signature[1]))
      \o Present(a.max_fee, <<"--max_fee", a.max_fee[1]>>)
      \o Present(a.mainnet_token, <<"--token", a.mainnet_token[1]>>)
      \o Present(a.query_flag, <<"--" \o a.query_flag[1]>>)
      \o Present(a.arguments, a.arguments[1])
      \o NetworkParams(a.network)
      \o <<"--no_wallet">>

(* C1: the command of every call is "starknet", the operation, then the
   components of the arguments that are present, in the order contract path,
   inputs, signature, max fee, token, query flag, extra arguments, network
   parameters, and "--no_wallet" last; nothing stands for an absent one. *)
C1_CommandLayout ==
    \A t \in Threads :
        calls[t].pc # "idle" => calls[t].command = ExpectedCommand(calls[t].args)

C1_Witness ==
    /\ calls["t1"].pc = "ready"
    /\ calls["t1"].command =
         <<"starknet", "deploy", "--contract", "build/contract.json",
           "--inputs", "1", "24930", "--signature", "0x1", "7",
           "--max_fee", "100", "--token", "token", "--estimate_fee",
           "--address", "0x1",
           "--gateway_url=http://127.0.0.1:5050/",
           "--feeder_gateway_url=http://127.0.0.1:5050/", "--no_wallet">>

(* C2: a call whose subprocess exited with a non-zero code returns the empty
   string and raises nothing, whatever the standard error held; a call that
   returns a non-empty string had exit code zero. *)
C2_FailureIsEmpty ==
    \A t \in Threads :
        calls[t].pc = "done" =>
            /\ calls[t].code # 0 =>
                 calls[t].result = <<>> /\ calls[t].raised = "none"
            /\ calls[t].result # <<>> => calls[t].code = 0

(* a step that is a direct call of get_network_parameter_or_set_env *)
DirectCall ==
    calls' = calls /\ GATEWAYS' = GATEWAYS /\ <<direct, environ>>' # <<direct, environ>>

ResolutionOf(network, extra_param) ==
    CASE network = "mainnet" ->
           environ' = Some("alpha-mainnet") /\ extra_param = <<>>
      [] network = "goerli" ->
           environ' = Some("alpha-goerli") /\ extra_param = <<>>
      [] OTHER ->
           /\ Len(extra_param) = 2
           /\ extra_param[1] = "--gateway_url=" \o UrlOf(network)
           /\ extra_param[2] = "--feeder_gateway_url=" \o UrlOf(network)

(* C7: resolving "mainnet" sets STARKNET_NETWORK to "alpha-mainnet" and
   gives no arguments, "goerli" sets it to "alpha-goerli" and gives none,
   any other name gives exactly --gateway_url=U and --feeder_gateway_url=U
   with U the URL of the name in the mapping, or None; in a direct call and
   in the call run_command makes. *)
C7_NetworkResolution ==
    [][/\ DirectCall => ResolutionOf(direct'.network, direct'.extra_param)
       /\ \A t \in Threads :
            (calls[t].pc = "idle" /\ calls'[t].pc = "ready") =>
                ResolutionOf(calls'[t].args.network, calls'[t].extra_param)
      ]_vars

C7_Witness ==
    /\ direct.network = "devnet"
    /\ "devnet" \notin DOMAIN GATEWAYS[1]
    /\ direct.extra_param = <<"--gateway_url=None", "--feeder_gateway_url=None">>
    /\ \E t \in Threads :
         /\ calls[t].pc = "ready"
         /\ calls[t].args.network = "goerli"
         /\ calls[t].extra_param = <<>>
         /\ environ = Some("alpha-goerli")

ThreeDefaults ==
    [n \in {"localhost", "goerli2", "integration"} |->
        CASE n = "localhost" -> "http://127.0.0.1:5050/"
          [] n = "goerli2" -> "https://alpha4-2.starknet.io"
          [] n = "integration" -> "https://external.integration.starknet.io"]

(* C8: once loaded, GATEWAYS is what the import made it: the contents of
   node.json if the file existed, which is then not written, else the three
   default entries, with which the file is created once; no later call
   changes the mapping or writes the file. *)
C8_GatewaysFixed ==
    GATEWAYS # None =>
        IF fileAtStart # None
        THEN GATEWAYS = fileAtStart /\ nodeFile = fileAtStart /\ fileWrites = 0
        ELSE /\ GATEWAYS = Some(ThreeDefaults)
             /\ nodeFile = Some(ThreeDefaults)
             /\ fileWrites = 1

C8_Witness ==
    /\ fileAtStart = None
    /\ GATEWAYS = Some(ThreeDefaults)
    /\ nodeFile = GATEWAYS
    /\ fileWrites = 1
    /\ direct.network = "localhost"
    /\ \E t \in Threads :
         /\ calls[t].pc = "done"
         /\ calls[t].args.network = "localhost"
         /\ calls[t].code # 0

ExpectedEnv(network) ==
    IF network = "mainnet" THEN Some("alpha-mainnet") ELSE Some("alpha-goerli")

LaunchesSeeOwnNetwork ==
    \A t \in Threads :
        calls[t].args.network \in {"mainnet", "goerli"} =>
            \A i \in 1..Len(calls[t].observed) :
                calls[t].observed[i] = ExpectedEnv(calls[t].args.network)

ReservedWrite ==
    environ' # environ =>
        \/ DirectCall /\ direct'.network \in {"mainnet", "goerli"}
        \/ \E t \in Threads :
             /\ calls[t].pc = "idle"
             /\ calls'[t].pc = "ready"
             /\ calls'[t].args.network \in {"mainnet", "goerli"}

(* C10 as claimed: with the run_command calls serialized, every subprocess
   launched for "mainnet" or "goerli", on the first launch and on the
   relaunch, sees the STARKNET_NETWORK of its own call; the variable is
   only written by a call that names a reserved network. *)
C10_RunCommandSerialized ==
    /\ [](discipline \in {"run_command", "all"} => LaunchesSeeOwnNetwork)
    /\ [][ReservedWrite]_vars

(* C10 as amended: the same, when the direct calls of
   get_network_parameter_or_set_env are serialized with the run_command
   calls as well (none runs while a run_command is in progress). *)
C10_SerializedEnv ==
    /\ [](discipline = "all" => LaunchesSeeOwnNetwork)
    /\ [][ReservedWrite]_vars

C10_Witness ==
    /\ discipline = "all"
    /\ direct.network = "goerli"
    /\ calls["t1"].pc = "done"
    /\ calls["t1"].args.network = "goerli"
    /\ calls["t1"].observed = <<Some("alpha-goerli")>>
    /\ calls["t2"].pc = "done"
    /\ calls["t2"].args.network = "mainnet"
    /\ calls["t2"].observed = <<Some("alpha-mainnet"), Some("alpha-mainnet")>>

(* the other half of C10: without serialization a subprocess can be
   launched with the value the other run_command call wrote *)
InterleavedLaunchSeesOtherNetwork ==
    /\ discipline = "none"
    /\ direct = NoDirect
    /\ \E t \in Threads :
         /\ calls[t].args.network = "mainnet"
         /\ \E i \in 1..Len(calls[t].observed) :
              calls[t].observed[i] = Some("alpha-goerli")

====
